---- MODULE Spec2Model ----
(***************************************************************************)
(* Model of utils/configuration_store/to_tie_generator.py.                 *)
(*                                                                         *)
(* Text is a sequence of fragments (strings): every literal piece of the   *)
(* script's string templates is one fragment and every formatted integer   *)
(* is one fragment (its decimal numeral).  File offsets are counted in     *)
(* fragments.  The output file is one shared object; an invocation of the  *)
(* script is a process that walks through main() statement by statement.   *)
(***************************************************************************)
EXTENDS Integers, Sequences, FiniteSets, TLC

\* ------------------------------------------------------------- bounds
\* largest integer given on the command line
MaxArg == 2
\* the most negative integer given on the command line is -MaxNeg
MaxNeg == 2
\* invocations started, one after the other, in one behaviour of SpecSeq
MaxSeqRuns == 3

Procs == {1, 2}

VARIABLES
    disk,          \* to_tie.hpp: [exists, data]
    pc,            \* per invocation: the statement of main() it is at
    argv,          \* per invocation: the command line after the program name
    num_of_cases,  \* per invocation: main's local num_of_cases
    idx,           \* per invocation: the comprehension's loop variable i
    parts,         \* per invocation: the list the comprehension has built
    fd,            \* per invocation: "closed" or "open"
    pos,           \* per invocation: offset of its open file description
    buf,           \* per invocation: text written but not yet flushed
    out,           \* history: all text this invocation passed to file.write
    opened,        \* history: this invocation executed open()
    before,        \* history: disk when this invocation started
    runs,          \* history: invocations started so far
    lastValid,     \* history: the last integer argument parsed, if any
    disk0,         \* history: the initial disk
    anyAbort       \* history: some invocation was aborted

vars == <<disk, pc, argv, num_of_cases, idx, parts, fd, pos, buf, out,
          opened, before, runs, lastValid, disk0, anyAbort>>

\* ------------------------------------------------------ text fragments
HEADER == "\n#pragma once\n#include \"aggregate_arity.hpp\"\nnamespace detail {\ntemplate <typename T, std::size_t arity = aggregate_arity<std::remove_cv_t<T>>::size() - 1>\nconstexpr auto to_tie( T &t){\n                   "

CaseIntro == "if constexpr (arity == "

CaseOpen == "){\n"

CaseClose == "\n}\n"

BindOpen == "auto& ["

BindClose == "] = t;\nreturn std::tie("

TieClose == ");\n"

EmptyTie == "return std::tie();"

MemberSep == ", "

\* variant: the cases joined without the else keyword
ElseSep_Blank == " "

ElseSep == " else "

OverflowIntro == "else if constexpr (arity >= "

OverflowBody == ") { static_assert(false,\"Generate new to_tie function, the script is located in utils/configuration_store\");\n }"

CLOSING == "};}"

\* a byte of a hole left by a write beyond the end of the file
NUL == "\\0"

\* ------------------------------------------------------ pure functions
\* str(n) / f"{n}": the decimal numeral of an integer
Str(n) == ToString(n)

\* list(range(lo, hi))
Range(lo, hi) == [j \in 1..(hi - lo) |-> lo + j - 1]

\* sep.join(items); a string is a sequence of fragments
RECURSIVE Join(_, _)
Join(sep, items) ==
    IF Len(items) = 0 THEN <<>>
    ELSE IF Len(items) = 1 THEN items[1]
    ELSE items[1] \o sep \o Join(sep, Tail(items))

MemberName(i) == "p" \o Str(i)

\* variant: range(1, num_of_elements), one name short
Members_ShortRange(num_of_elements) ==
    Join(<<MemberSep>>,
         [j \in 1..Len(Range(1, num_of_elements)) |->
              <<MemberName(Range(1, num_of_elements)[j])>>])

\* ", ".join([f"p{i}" for i in range(1, num_of_elements + 1)])
Members(num_of_elements) ==
    Join(<<MemberSep>>,
         [j \in 1..Len(Range(1, num_of_elements + 1)) |->
              <<MemberName(Range(1, num_of_elements + 1)[j])>>])

generate_tuple(num_of_elements) ==
    LET members == Members(num_of_elements)
        bound == <<BindOpen>> \o members \o <<BindClose>> \o members \o <<TieClose>>
        case == IF num_of_elements = 0 THEN <<EmptyTie>> ELSE bound
    IN  <<CaseIntro, Str(num_of_elements), CaseOpen>> \o case \o <<CaseClose>>

\* variant: the overflow guard one above the bound
OverflowBranch_OffByOne(n) == <<OverflowIntro, Str(n + 1), OverflowBody>>

OverflowBranch(n) == <<OverflowIntro, Str(n), OverflowBody>>

\* variant: the argument used as the bound without the increment
NumOfCases_NoIncrement(arg) == arg

\* num_of_cases = args.num_of_cases + 1
NumOfCases(arg) == arg + 1

\* ---------------------------------------------------- argument parsing
\* integers the command line can name
ArgInts == (0 - MaxNeg)..MaxArg

\* int(s) succeeds: s is the decimal numeral of an integer (of the bounded set)
IsInt(s) == \E n \in ArgInts : Str(n) = s

\* int(s)
IntOf(s) == CHOOSE n \in ArgInts : Str(n) = s

HelpFlags == {"-h", "--help"}

ArgWords == {Str(n) : n \in ArgInts} \cup {"abc", "1.5", "-h"}

CommandLines == {<<>>} \cup {<<w>> : w \in ArgWords}

\* variant: a missing or unparsable argument falls back to 0
parse_args_Lenient(av) ==
    IF Len(av) = 0 THEN [status |-> "ok", num_of_cases |-> 0]
    ELSE IF av[1] \in HelpFlags THEN [status |-> "help", num_of_cases |-> 0]
    ELSE IF IsInt(av[1]) THEN [status |-> "ok", num_of_cases |-> IntOf(av[1])]
    ELSE [status |-> "ok", num_of_cases |-> 0]

\* variant: negative integers rejected as argument errors
parse_args_NonNegative(av) ==
    IF Len(av) = 0 THEN [status |-> "error", num_of_cases |-> 0]
    ELSE IF av[1] \in HelpFlags THEN [status |-> "help", num_of_cases |-> 0]
    ELSE IF IsInt(av[1]) /\ IntOf(av[1]) >= 0
         THEN [status |-> "ok", num_of_cases |-> IntOf(av[1])]
    ELSE [status |-> "error", num_of_cases |-> 0]

\* parser.parse_args(): one positional of type int; ArgumentParser() adds the
\* help option by default.  status "error" is parser.error(): exit status 2;
\* status "help" prints the help and exits with status 0
parse_args(av) ==
    IF Len(av) = 0 THEN [status |-> "error", num_of_cases |-> 0]
    ELSE IF av[1] \in HelpFlags THEN [status |-> "help", num_of_cases |-> 0]
    ELSE IF IsInt(av[1]) THEN [status |-> "ok", num_of_cases |-> IntOf(av[1])]
    ELSE [status |-> "error", num_of_cases |-> 0]

\* ------------------------------------------------------------ the file
NoFile == [exists |-> FALSE, data |-> <<>>]

\* variant: the file opened without truncation (mode "r+")
Truncated_Keep(d) == [exists |-> TRUE, data |-> d.data]

\* open(path, "w"): create or truncate
Truncated(d) == [exists |-> TRUE, data |-> <<>>]

\* variant: the file opened in append mode (mode "a")
WriteAt_Append(d, off, data) == [exists |-> TRUE, data |-> d.data \o data]

\* write(2) of data at offset off of the open file description
WriteAt(d, off, data) ==
    LET old == d.data
        padded == IF Len(old) < off
                  THEN old \o [j \in 1..(off - Len(old)) |-> NUL]
                  ELSE old
    IN  [exists |-> TRUE,
         data |-> SubSeq(padded, 1, off) \o data
                  \o SubSeq(padded, off + Len(data) + 1, Len(padded))]

\* the whole text main() writes for a parsed argument a
FileText(a) ==
    <<HEADER>>
    \o Join(<<ElseSep>>,
            [j \in 1..Len(Range(0, NumOfCases(a))) |->
                 generate_tuple(Range(0, NumOfCases(a))[j])])
    \o OverflowBranch(NumOfCases(a))
    \o <<CLOSING>>

StaleDisk == [exists |-> TRUE, data |-> FileText(MaxArg + 1) \o <<"// stale\n">>]

\* ---------------------------------------------------------------- Init
Ended == {"exit0", "exit2", "aborted"}

Running == {"parse_args", "open", "write_header", "gen_cases",
            "write_overflow", "write_closing", "close"}

Init ==
    /\ disk \in {NoFile, StaleDisk}
    /\ disk0 = disk
    /\ pc = [p \in Procs |-> "idle"]
    /\ argv = [p \in Procs |-> <<>>]
    /\ num_of_cases = [p \in Procs |-> 0]
    /\ idx = [p \in Procs |-> 0]
    /\ parts = [p \in Procs |-> <<>>]
    /\ fd = [p \in Procs |-> "closed"]
    /\ pos = [p \in Procs |-> 0]
    /\ buf = [p \in Procs |-> <<>>]
    /\ out = [p \in Procs |-> <<>>]
    /\ opened = [p \in Procs |-> FALSE]
    /\ before = [p \in Procs |-> disk]
    /\ runs = 0
    /\ lastValid = [set |-> FALSE, a |-> 0]
    /\ anyAbort = FALSE

\* ------------------------------------------------------------- actions
\* the script is started with command line av
Start(p, av) ==
    /\ pc[p] \in Ended \cup {"idle"}
    /\ pc' = [pc EXCEPT ![p] = "parse_args"]
    /\ argv' = [argv EXCEPT ![p] = av]
    /\ num_of_cases' = [num_of_cases EXCEPT ![p] = 0]
    /\ idx' = [idx EXCEPT ![p] = 0]
    /\ parts' = [parts EXCEPT ![p] = <<>>]
    /\ fd' = [fd EXCEPT ![p] = "closed"]
    /\ pos' = [pos EXCEPT ![p] = 0]
    /\ buf' = [buf EXCEPT ![p] = <<>>]
    /\ out' = [out EXCEPT ![p] = <<>>]
    /\ opened' = [opened EXCEPT ![p] = FALSE]
    /\ before' = [before EXCEPT ![p] = disk]
    /\ runs' = runs + 1
    /\ UNCHANGED <<disk, lastValid, disk0, anyAbort>>

\* Spec: each of the two invocations is started once, at any time
Invoke(p) ==
    /\ pc[p] = "idle"
    /\ \E av \in CommandLines : Start(p, av)

\* SpecSeq: the next invocation starts when no invocation is running
InvokeNext(p) ==
    /\ runs < MaxSeqRuns
    /\ \A q \in Procs : pc[q] \notin Running
    /\ \E av \in CommandLines : Start(p, av)

\* args = parser.parse_args(); num_of_cases = args.num_of_cases + 1
ParseArgs(p) ==
    /\ pc[p] = "parse_args"
    /\ LET r == parse_args(argv[p])
       IN  /\ pc' = [pc EXCEPT ![p] = CASE r.status = "ok" -> "open"
                                        [] r.status = "help" -> "exit0"
                                        [] OTHER -> "exit2"]
           /\ num_of_cases' = [num_of_cases EXCEPT ![p] =
                                  IF r.status = "ok" THEN NumOfCases(r.num_of_cases) ELSE 0]
           /\ lastValid' = IF r.status = "ok"
                           THEN [set |-> TRUE, a |-> r.num_of_cases]
                           ELSE lastValid
    /\ UNCHANGED <<disk, argv, idx, parts, fd, pos, buf, out, opened, before,
                   runs, disk0, anyAbort>>

\* with open("to_tie.hpp", "w") as file:
OpenFile(p) ==
    /\ pc[p] = "open"
    /\ disk' = Truncated(disk)
    /\ fd' = [fd EXCEPT ![p] = "open"]
    /\ pos' = [pos EXCEPT ![p] = 0]
    /\ buf' = [buf EXCEPT ![p] = <<>>]
    /\ opened' = [opened EXCEPT ![p] = TRUE]
    /\ pc' = [pc EXCEPT ![p] = "write_header"]
    /\ UNCHANGED <<argv, num_of_cases, idx, parts, out, before, runs,
                   lastValid, disk0, anyAbort>>

\* file.write(text): into the file object's buffer
Write(p, text) ==
    /\ buf' = [buf EXCEPT ![p] = @ \o text]
    /\ out' = [out EXCEPT ![p] = @ \o text]

WriteHeader(p) ==
    /\ pc[p] = "write_header"
    /\ Write(p, <<HEADER>>)
    /\ idx' = [idx EXCEPT ![p] = 0]
    /\ parts' = [parts EXCEPT ![p] = <<>>]
    /\ pc' = [pc EXCEPT ![p] = "gen_cases"]
    /\ UNCHANGED <<disk, argv, num_of_cases, fd, pos, opened, before, runs,
                   lastValid, disk0, anyAbort>>

\* variant: each new case put in front of the list
GenerateCase_Prepend(p) ==
    /\ pc[p] = "gen_cases"
    /\ idx[p] < num_of_cases[p]
    /\ parts' = [parts EXCEPT ![p] = <<generate_tuple(idx[p])>> \o @]
    /\ idx' = [idx EXCEPT ![p] = @ + 1]
    /\ UNCHANGED <<disk, pc, argv, num_of_cases, fd, pos, buf, out, opened,
                   before, runs, lastValid, disk0, anyAbort>>

\* one iteration of [generate_tuple(i) for i in range(0, num_of_cases)]
GenerateCase(p) ==
    /\ pc[p] = "gen_cases"
    /\ idx[p] < num_of_cases[p]
    /\ parts' = [parts EXCEPT ![p] = Append(@, generate_tuple(idx[p]))]
    /\ idx' = [idx EXCEPT ![p] = @ + 1]
    /\ UNCHANGED <<disk, pc, argv, num_of_cases, fd, pos, buf, out, opened,
                   before, runs, lastValid, disk0, anyAbort>>

\* cases = " else ".join([...]); file.write(cases)
WriteCases(p) ==
    /\ pc[p] = "gen_cases"
    /\ idx[p] >= num_of_cases[p]
    /\ Write(p, Join(<<ElseSep>>, parts[p]))
    /\ pc' = [pc EXCEPT ![p] = "write_overflow"]
    /\ UNCHANGED <<disk, argv, num_of_cases, idx, parts, fd, pos, opened,
                   before, runs, lastValid, disk0, anyAbort>>

\* file.write(f'else if constexpr (arity >= {num_of_cases}) {{ ... }}')
WriteOverflow(p) ==
    /\ pc[p] = "write_overflow"
    /\ Write(p, OverflowBranch(num_of_cases[p]))
    /\ pc' = [pc EXCEPT ![p] = "write_closing"]
    /\ UNCHANGED <<disk, argv, num_of_cases, idx, parts, fd, pos, opened,
                   before, runs, lastValid, disk0, anyAbort>>

\* file.write("};}")
WriteClosing(p) ==
    /\ pc[p] = "write_closing"
    /\ Write(p, <<CLOSING>>)
    /\ pc' = [pc EXCEPT ![p] = "close"]
    /\ UNCHANGED <<disk, argv, num_of_cases, idx, parts, fd, pos, opened,
                   before, runs, lastValid, disk0, anyAbort>>

\* the file object writes its buffer through: it may do so whenever a write
\* fills the buffer, and does so at the latest when the file is closed
Flush(p) ==
    /\ fd[p] = "open"
    /\ pc[p] \in Running
    /\ buf[p] /= <<>>
    /\ disk' = WriteAt(disk, pos[p], buf[p])
    /\ pos' = [pos EXCEPT ![p] = @ + Len(buf[p])]
    /\ buf' = [buf EXCEPT ![p] = <<>>]
    /\ UNCHANGED <<pc, argv, num_of_cases, idx, parts, fd, out, opened,
                   before, runs, lastValid, disk0, anyAbort>>

\* variant: the file closed without writing its buffer
CloseFile_NoFlush(p) ==
    /\ pc[p] = "close"
    /\ buf' = [buf EXCEPT ![p] = <<>>]
    /\ fd' = [fd EXCEPT ![p] = "closed"]
    /\ pc' = [pc EXCEPT ![p] = "exit0"]
    /\ UNCHANGED <<disk, pos, argv, num_of_cases, idx, parts, out, opened,
                   before, runs, lastValid, disk0, anyAbort>>

\* leaving the with block: flush and close; main returns
CloseFile(p) ==
    /\ pc[p] = "close"
    /\ disk' = IF buf[p] = <<>> THEN disk ELSE WriteAt(disk, pos[p], buf[p])
    /\ pos' = [pos EXCEPT ![p] = @ + Len(buf[p])]
    /\ buf' = [buf EXCEPT ![p] = <<>>]
    /\ fd' = [fd EXCEPT ![p] = "closed"]
    /\ pc' = [pc EXCEPT ![p] = "exit0"]
    /\ UNCHANGED <<argv, num_of_cases, idx, parts, out, opened, before, runs,
                   lastValid, disk0, anyAbort>>

\* the process dies inside main(): killed (the buffer is lost), or an exception
\* unwinds through the with block, which flushes and closes the file
Abort(p) ==
    /\ pc[p] \in Running
    /\ \E flushed \in BOOLEAN :
          disk' = IF fd[p] = "open" /\ flushed /\ buf[p] /= <<>>
                  THEN WriteAt(disk, pos[p], buf[p])
                  ELSE disk
    /\ buf' = [buf EXCEPT ![p] = <<>>]
    /\ fd' = [fd EXCEPT ![p] = "closed"]
    /\ pc' = [pc EXCEPT ![p] = "aborted"]
    /\ anyAbort' = TRUE
    /\ UNCHANGED <<argv, num_of_cases, idx, parts, pos, out, opened, before,
                   runs, lastValid, disk0>>

Step(p) ==
    \/ ParseArgs(p)
    \/ OpenFile(p)
    \/ WriteHeader(p)
    \/ GenerateCase(p)
    \/ WriteCases(p)
    \/ WriteOverflow(p)
    \/ WriteClosing(p)
    \/ Flush(p)
    \/ CloseFile(p)

Next == \E p \in Procs : Invoke(p) \/ Step(p)

Spec == Init /\ [][Next]_vars

\* invocations one after the other, each of which may be aborted
NextSeq == InvokeNext(1) \/ Step(1) \/ Abort(1)

SpecSeq == Init /\ [][NextSeq]_vars

\* ============================================================ the claims
\* ------------------------------------------- reading a text back
\* the integers a numeral of the output can denote
Numerals == (0 - MaxNeg - 2)..(MaxArg + 3)

IsNumeral(s) == \E n \in Numerals : ToString(n) = s

\* the integer a numeral denotes
NumeralValue(s) == CHOOSE n \in Numerals : ToString(n) = s

\* positions at which a branch of the chain starts
BranchStarts(t) == {i \in 1..Len(t) : t[i] \in {CaseIntro, OverflowIntro}}

\* the j-th smallest element of a set of positions
NthOf(S, j) == CHOOSE i \in S : Cardinality({x \in S : x < i}) = j - 1

\* the branch that starts at position i of t: its kind, the number of its
\* guard, the keyword that introduces it, and where it starts
BranchAt(t, i) ==
    [kind  |-> IF t[i] = CaseIntro THEN "case" ELSE "overflow",
     n     |-> IF i < Len(t) /\ IsNumeral(t[i + 1]) THEN NumeralValue(t[i + 1]) ELSE 0 - 1000,
     intro |-> IF t[i] = OverflowIntro \/ (i > 1 /\ t[i - 1] = " else ")
               THEN "else if constexpr" ELSE "if constexpr",
     at    |-> i]

\* the branches of a text, in the order they appear
Branches(t) ==
    [j \in 1..Cardinality(BranchStarts(t)) |-> BranchAt(t, NthOf(BranchStarts(t), j))]

CaseBranches(t) == SelectSeq(Branches(t), LAMBDA b : b.kind = "case")

OverflowBranches(t) == SelectSeq(Branches(t), LAMBDA b : b.kind = "overflow")

\* the guard of branch b is satisfied by arity x
Satisfies(b, x) == IF b.kind = "case" THEN x = b.n ELSE x >= b.n

Count(t, frag) == Cardinality({i \in 1..Len(t) : t[i] = frag})

IsPrefix(s, t) == Len(s) <= Len(t) /\ SubSeq(t, 1, Len(s)) = s

\* the invocation in slot p was given an integer, and that integer
HasIntArg(p) == Len(argv[p]) = 1 /\ IsNumeral(argv[p][1])

Arg(p) == NumeralValue(argv[p][1])

\* the invocation in slot p ran main() to its end
Completed(p) == pc[p] = "exit0" /\ opened[p]

\* the guard numbers of the case branches of t are exactly lo..hi, once each
CasesAre(t, lo, hi) ==
    /\ Len(CaseBranches(t)) = hi - lo + 1
    /\ \A k \in lo..hi : \E j \in 1..Len(CaseBranches(t)) : CaseBranches(t)[j].n = k

\* C1 (as claimed): after a run with argument a >= 0 the file holds case
\* branches for every k in 0..a+1 and one overflow branch guarded at a+2.
C1_Original ==
    (Completed(1) /\ HasIntArg(1) /\ Arg(1) >= 0) =>
        /\ Len(Branches(disk.data)) = Arg(1) + 3
        /\ CasesAre(disk.data, 0, Arg(1) + 1)
        /\ Len(OverflowBranches(disk.data)) = 1
        /\ OverflowBranches(disk.data)[1].n = Arg(1) + 2

\* C1 (amended): after a run with argument a >= 0 the file holds exactly a+2
\* branches: one case branch for every k in 0..a and exactly one overflow
\* branch, guarded at a+1 (the effective bound N = a+1 is the threshold, and
\* the case branches are k = 0..N-1).
C1_Branches ==
    (Completed(1) /\ HasIntArg(1) /\ Arg(1) >= 0) =>
        /\ Len(Branches(disk.data)) = Arg(1) + 2
        /\ CasesAre(disk.data, 0, Arg(1))
        /\ Len(OverflowBranches(disk.data)) = 1
        /\ OverflowBranches(disk.data)[1].n = Arg(1) + 1

\* argument 2 has run: case branches 0, 1, 2 and the overflow guard at 3
C1_Witness ==
    /\ Completed(1) /\ HasIntArg(1) /\ Arg(1) = 2
    /\ CasesAre(disk.data, 0, 2)
    /\ OverflowBranches(disk.data)[1].n = 3

\* arities a guard is tried on
MaxArity == MaxArg + 3

SatisfiedBy(t, x) == {j \in 1..Len(Branches(t)) : Satisfies(Branches(t)[j], x)}

LargestCase(t) ==
    CHOOSE k \in Numerals :
        /\ \E j \in 1..Len(CaseBranches(t)) : CaseBranches(t)[j].n = k
        /\ \A j \in 1..Len(CaseBranches(t)) : CaseBranches(t)[j].n <= k

\* C2: for every argument a >= 0 and every arity x >= 0 exactly one guard
\* of the written chain is satisfied by x: the case branch k = x when x is at
\* most the largest case k, the overflow branch otherwise; the overflow
\* threshold is the largest case k plus one and no k has two case branches.
C2_ExactlyOneGuard ==
    (Completed(1) /\ HasIntArg(1) /\ Arg(1) >= 0) =>
        LET t == disk.data
            B == Branches(t)
        IN  /\ Len(CaseBranches(t)) >= 1
            /\ Len(OverflowBranches(t)) = 1
            /\ OverflowBranches(t)[1].n = LargestCase(t) + 1
            /\ \A i, j \in 1..Len(CaseBranches(t)) :
                   CaseBranches(t)[i].n = CaseBranches(t)[j].n => i = j
            /\ \A x \in 0..MaxArity :
                   /\ Cardinality(SatisfiedBy(t, x)) = 1
                   /\ \A j \in SatisfiedBy(t, x) :
                          IF x <= LargestCase(t)
                          THEN B[j].kind = "case" /\ B[j].n = x
                          ELSE B[j].kind = "overflow"

\* argument 1 has run: arity 1 selects the case branch k = 1 and arity 2,
\* the first beyond the largest case, selects the overflow branch
C2_Witness ==
    /\ Completed(1) /\ HasIntArg(1) /\ Arg(1) = 1
    /\ LargestCase(disk.data) = 1
    /\ \E j \in SatisfiedBy(disk.data, 1) : Branches(disk.data)[j].kind = "case"
    /\ \E j \in SatisfiedBy(disk.data, 2) : Branches(disk.data)[j].kind = "overflow"

\* C4: after any sequence of invocations run one after the other, from any
\* initial file, the file is a function of the argument of the last
\* invocation that had an integer argument (and is the initial file when
\* there was none): nothing of an earlier invocation survives.
C4_LastValidDecides ==
    (~anyAbort /\ \A p \in Procs : pc[p] \notin Running) =>
        IF lastValid.set
        THEN disk = [exists |-> TRUE, data |-> FileText(lastValid.a)]
        ELSE disk = disk0

\* argument 0 has run over the longer file an earlier run with argument 2
\* left: the file is the text of argument 0
C4_Witness ==
    /\ ~anyAbort /\ runs >= 2 /\ Completed(1)
    /\ lastValid = [set |-> TRUE, a |-> 0]
    /\ before[1].data = FileText(2)
    /\ disk.data = FileText(0)
    /\ Len(FileText(0)) < Len(FileText(2))

\* argparse's help option was given
AsksHelp(p) == Len(argv[p]) = 1 /\ argv[p][1] \in {"-h", "--help"}

\* C5 (as claimed): a command line whose argument is missing or is not an
\* integer ends with a non-zero exit status, the file untouched and
\* generate_tuple never called.
C5_Original ==
    (pc[1] \in Ended /\ ~HasIntArg(1)) =>
        /\ pc[1] /= "exit0"
        /\ ~opened[1]
        /\ disk = before[1]
        /\ parts[1] = <<>>

\* C5 (amended): a command line whose argument is missing or is not an
\* integer never reaches open(): the file is neither created, truncated nor
\* modified and generate_tuple is never called; the invocation ends with a
\* non-zero exit status unless the command line is argparse's help option
\* (-h / --help), which ends it with exit status zero.
C5_InvalidArgument ==
    (pc[1] /= "idle" /\ ~HasIntArg(1)) =>
        /\ pc[1] \in {"parse_args", "exit0", "exit2", "aborted"}
        /\ ~opened[1]
        /\ fd[1] = "closed"
        /\ disk = before[1]
        /\ parts[1] = <<>>
        /\ out[1] = <<>>
        /\ pc[1] = "exit0" => AsksHelp(1)
        /\ (pc[1] \in Ended /\ ~AsksHelp(1)) => pc[1] \in {"exit2", "aborted"}

\* 'abc' was given over an existing file: exit status 2, the file as it was
C5_Witness ==
    /\ pc[1] = "exit2" /\ argv[1] = <<"abc">>
    /\ before[1] = StaleDisk /\ disk = StaleDisk
    /\ ~opened[1] /\ parts[1] = <<>>

\* C6 (as claimed): when an invocation has ended, however it ended, the file
\* holds its complete output or is exactly as it was before it started.
C6_Original ==
    pc[1] \in Ended =>
        \/ disk = before[1]
        \/ HasIntArg(1) /\ disk = [exists |-> TRUE, data |-> FileText(Arg(1))]

\* C6 (amended): the file is opened and truncated before any content is
\* generated.  An invocation that ends before open() leaves the file exactly
\* as it was; one that runs to its end leaves its complete output; one that
\* is aborted after open() leaves a prefix of its output, possibly empty
\* (the truncated file, the header only, the header and the chain, ...).
C6_PrefixOfOutput ==
    /\ ~opened[1] => disk = before[1]
    /\ opened[1] => /\ HasIntArg(1)
                    /\ disk.exists
                    /\ IsPrefix(disk.data, FileText(Arg(1)))
    /\ Completed(1) => disk.data = FileText(Arg(1))
    /\ pc[1] = "write_header" =>
           opened[1] /\ disk.data = <<>> /\ parts[1] = <<>> /\ out[1] = <<>>

\* aborted after the header went to the file: a stale file now holds the
\* header and nothing else
C6_Witness ==
    /\ pc[1] = "aborted" /\ opened[1]
    /\ before[1] = StaleDisk
    /\ disk.data = <<HEADER>>

\* C8: for every argument a >= 0 the file is the header, then the case
\* branches k = 0, 1, ... in ascending order, each once, then the overflow
\* branch, then the closing text; the first branch is introduced by
\* 'if constexpr', every later one by 'else if constexpr', and there is
\* exactly one static_assert, with the fixed diagnostic.
C8_OneChain ==
    (Completed(1) /\ HasIntArg(1) /\ Arg(1) >= 0) =>
        LET t == disk.data
            B == Branches(t)
        IN  /\ t[1] = HEADER /\ Count(t, HEADER) = 1
            /\ Len(B) >= 2
            /\ B[1].at = 2 /\ B[1].intro = "if constexpr"
            /\ \A j \in 2..Len(B) : B[j].intro = "else if constexpr"
            /\ \A j \in 1..(Len(B) - 1) : B[j].kind = "case" /\ B[j].n = j - 1
            /\ B[Len(B)].kind = "overflow"
            /\ B[Len(B)].at = Len(t) - 3
            /\ t[Len(t) - 1] = OverflowBody /\ Count(t, OverflowBody) = 1
            /\ t[Len(t)] = CLOSING /\ Count(t, CLOSING) = 1
            /\ \A j \in 1..(Len(B) - 2) : t[B[j + 1].at - 1] = " else "
            /\ t[B[Len(B)].at - 1] = CaseClose
            /\ Count(t, " else ") = Len(B) - 2

\* argument 2 has run: four branches, 'if' then three 'else if'
C8_Witness ==
    /\ Completed(1) /\ HasIntArg(1) /\ Arg(1) = 2
    /\ Len(Branches(disk.data)) = 4
    /\ Branches(disk.data)[1].intro = "if constexpr"
    /\ Branches(disk.data)[3].intro = "else if constexpr"
    /\ Branches(disk.data)[3].n = 2
    /\ Branches(disk.data)[4].kind = "overflow"

\* C10: a negative integer argument a <= -1 is not an invalid invocation:
\* the tool goes on past argument parsing, overwrites the file and ends
\* normally; the file holds no case branch and a single overflow branch,
\* introduced by 'else if constexpr', guarded at a+1 <= 0, which every arity
\* satisfies.
C10_NegativeArgument ==
    (pc[1] \notin {"idle", "parse_args"} /\ HasIntArg(1) /\ Arg(1) <= 0 - 1) =>
        /\ pc[1] /= "exit2"
        /\ pc[1] \notin {"open", "aborted"} => opened[1]
        /\ parts[1] = <<>>
        /\ Completed(1) =>
              /\ disk.data = <<HEADER, OverflowIntro, ToString(Arg(1) + 1), OverflowBody, CLOSING>>
              /\ Len(CaseBranches(disk.data)) = 0
              /\ Len(Branches(disk.data)) = 1
              /\ Branches(disk.data)[1].kind = "overflow"
              /\ Branches(disk.data)[1].intro = "else if constexpr"
              /\ Branches(disk.data)[1].n = Arg(1) + 1
              /\ Branches(disk.data)[1].n <= 0
              /\ \A x \in 0..MaxArity : Satisfies(Branches(disk.data)[1], x)

\* argument -2 has run over a stale file: only the overflow branch, at -1
C10_Witness ==
    /\ Completed(1) /\ argv[1] = <<"-2">>
    /\ before[1] = StaleDisk
    /\ Len(Branches(disk.data)) = 1
    /\ Branches(disk.data)[1].n = 0 - 1
    /\ Branches(disk.data)[1].intro = "else if constexpr"

\* ------------------------------------------- reading one case back
\* the first position of frag in t, 0 when it is not there
IndexOf(t, frag) ==
    IF Count(t, frag) = 0 THEN 0
    ELSE CHOOSE i \in 1..Len(t) : t[i] = frag /\ \A x \in 1..(i - 1) : t[x] /= frag

\* t[lo..hi] is a list of items separated by ", "
WellSeparated(t, lo, hi) ==
    /\ hi >= lo
    /\ (hi - lo) % 2 = 0
    /\ \A i \in lo..hi : (i - lo) % 2 = 1 <=> t[i] = MemberSep

\* the items of the list t[lo..hi]
Items(t, lo, hi) == [j \in 1..((hi - lo) \div 2 + 1) |-> t[lo + 2 * (j - 1)]]

\* the names p1, ..., pk
Placeholders(k) == [i \in 1..k |-> "p" \o ToString(i)]

\* t is one branch guarded by 'arity == k', with the body C3 describes
ShapedCase(t, k) ==
    /\ Len(t) >= 5
    /\ t[1] = CaseIntro /\ t[2] = ToString(k) /\ t[3] = CaseOpen
    /\ t[Len(t)] = CaseClose
    /\ Count(t, CaseIntro) = 1 /\ Count(t, OverflowIntro) = 0
    /\ IF k = 0
       THEN SubSeq(t, 4, Len(t) - 1) = <<EmptyTie>>
       ELSE LET b == IndexOf(t, BindClose)
                e == IndexOf(t, TieClose)
            IN  /\ t[4] = BindOpen /\ Count(t, BindOpen) = 1
                /\ Count(t, BindClose) = 1 /\ Count(t, TieClose) = 1
                /\ Count(t, EmptyTie) = 0
                /\ b > 5 /\ e = Len(t) - 1
                /\ WellSeparated(t, 5, b - 1)
                /\ WellSeparated(t, b + 1, e - 1)
                /\ Items(t, 5, b - 1) = Placeholders(k)
                /\ Items(t, b + 1, e - 1) = Items(t, 5, b - 1)

\* C3: the j-th call of generate_tuple, generate_tuple(k) with k = j-1,
\* returns one branch guarded by 'arity == k'; for k = 0 its body is
\* 'return std::tie();' with no binding; for k >= 1 it binds exactly
\* p1, ..., pk and returns std::tie over the same names in the same order.
C3_CaseShape ==
    \A p \in Procs : \A j \in 1..Len(parts[p]) : ShapedCase(parts[p][j], j - 1)

\* generate_tuple(0), (1), (2) have been called: an empty tie, then p1, p2
C3_Witness ==
    \E p \in Procs :
        /\ Len(parts[p]) = 3
        /\ parts[p][1] = <<CaseIntro, "0", CaseOpen, EmptyTie, CaseClose>>
        /\ Items(parts[p][3], 5, 7) = <<"p1", "p2">>
        /\ Items(parts[p][3], 9, 11) = <<"p1", "p2">>

\* ------------------------------------------- two outputs side by side
\* the first position >= i of t that closes a case branch
CloseAfter(t, i) ==
    CHOOSE e \in i..Len(t) : t[e] = CaseClose /\ \A x \in i..(e - 1) : t[x] /= CaseClose

\* the texts of the case branches of t, each with the keyword before it
CaseTexts(t) ==
    [j \in 1..Len(CaseBranches(t)) |->
        [intro |-> CaseBranches(t)[j].intro,
         text  |-> SubSeq(t, CaseBranches(t)[j].at, CloseAfter(t, CaseBranches(t)[j].at))]]

\* the text between the header and the overflow branch
ChainText(t) == SubSeq(t, 2, IndexOf(t, OverflowIntro) - 1)

\* C7: for arguments 0 <= a < a' the case branches written for a are a
\* strict prefix, text for text, of those written for a'; the overflow
\* branches differ only in the number of the guard; header, diagnostic and
\* closing text are the same.
C7_PrefixExtension ==
    \A p, q \in Procs :
        (/\ Completed(p) /\ Completed(q)
         /\ HasIntArg(p) /\ HasIntArg(q)
         /\ 0 <= Arg(p) /\ Arg(p) < Arg(q)) =>
            LET s == out[p]
                t == out[q]
                os == IndexOf(s, OverflowIntro)
                ot == IndexOf(t, OverflowIntro)
            IN  /\ Len(CaseTexts(s)) < Len(CaseTexts(t))
                /\ \A j \in 1..Len(CaseTexts(s)) : CaseTexts(s)[j] = CaseTexts(t)[j]
                /\ Len(ChainText(s)) < Len(ChainText(t))
                /\ IsPrefix(ChainText(s), ChainText(t))
                /\ Count(s, OverflowIntro) = 1 /\ Count(t, OverflowIntro) = 1
                /\ s[os + 1] /= t[ot + 1]
                /\ NumeralValue(s[os + 1]) = Arg(p) + 1
                /\ NumeralValue(t[ot + 1]) = Arg(q) + 1
                /\ s[os + 2] = t[ot + 2] /\ s[os + 2] = OverflowBody
                /\ os + 3 = Len(s) /\ ot + 3 = Len(t)
                /\ s[Len(s)] = t[Len(t)]
                /\ s[1] = t[1] /\ s[1] = HEADER

\* arguments 0 and 2 have both run: one case branch against three
C7_Witness ==
    /\ Completed(1) /\ Completed(2)
    /\ argv[1] = <<"0">> /\ argv[2] = <<"2">>
    /\ Len(CaseTexts(out[1])) = 1 /\ Len(CaseTexts(out[2])) = 3
    /\ CaseTexts(out[1])[1] = CaseTexts(out[2])[1]

\* ------------------------------------------- two invocations at once
Longest == IF Len(out[1]) >= Len(out[2]) THEN Len(out[1]) ELSE Len(out[2])

Shortest == IF Len(out[1]) <= Len(out[2]) THEN Len(out[1]) ELSE Len(out[2])

\* C9: nothing keeps a second invocation from opening the file while a first
\* holds it open, and each writes at its own offset; so when two
\* invocations have both run to their end the file is some position-wise
\* mixture of their two outputs (or of holes), which need be neither output.
C9_NoLock ==
    /\ \A p \in Procs : pc[p] = "open" => ENABLED OpenFile(p)
    /\ (Completed(1) /\ Completed(2)) =>
          /\ disk.exists
          /\ Len(disk.data) <= Longest
          /\ Len(disk.data) >= Shortest
          /\ \A i \in 1..Len(disk.data) :
                 \/ i <= Len(out[1]) /\ disk.data[i] = out[1][i]
                 \/ i <= Len(out[2]) /\ disk.data[i] = out[2][i]
                 \/ disk.data[i] = NUL

\* arguments 0 and 2 ran at once: the file is the output for 0 followed by
\* the tail of the output for 2, which is neither output
C9_Witness ==
    /\ Completed(1) /\ Completed(2)
    /\ argv[1] = <<"0">> /\ argv[2] = <<"2">>
    /\ disk.data /= out[1] /\ disk.data /= out[2]
    /\ disk.data = out[1] \o SubSeq(out[2], Len(out[1]) + 1, Len(out[2]))

====
